---- MODULE Spec2Model ----
(***************************************************************************)
(* quick_verify_threads.py: a coordinator thread (main) verifies globals   *)
(* and schemas, discovers the tables of every database and pushes them to  *)
(* a FIFO queue; args.jobs daemon worker threads pop (dbname, tbl) pairs    *)
(* and pg_dump them to /dev/null.  The coordinator polls the queue until    *)
(* it is empty (or a worker has died) and derives the verdict from the      *)
(* global err_count.                                                        *)
(***************************************************************************)
EXTENDS Integers, Sequences, FiniteSets

\* ------------------------------------------------------------------ bounds
MaxDbs == 2
MaxTables == 2
MaxJobs == 2
\* The most tables the databases hold together.
MaxQueued == 3

DbNames == 1..MaxDbs
TableNames == 1..MaxTables
WorkerIds == 1..MaxJobs
Items == DbNames \X TableNames

VARIABLES
    args_jobs,      \* args.jobs
    args_dbname,    \* args.dbname; 0 stands for None
    pc,             \* position of the main thread
    dbs,            \* main: the list of databases
    db_i,           \* main: index of the for loop over dbs
    tables,         \* add_tables_from_db: the list of tables of the current db
    t_i,            \* add_tables_from_db: index of the for loop over tables
    tables_added,   \* main: tables_added
    retcode,        \* verify_globals, verify_schema: retcode of the last one
    w_i,            \* all_workers_alive: index of the for loop over workers
    workers,        \* global workers: the list of started threads
    queue,          \* global queue (FIFO)
    err_count,      \* global err_count
    wpc,            \* position of each worker thread
    witem,          \* worker_process: (dbname, tbl) while it is being dumped
    wtmp,           \* worker_process: err_count as loaded by err_count += 1, until stored
    popped,         \* every item queue.get() has returned, in order
    dumps,          \* per item, how many pg_dump runs on it have ended
    results         \* per (retcode, nomatch), how many pg_dump runs returned it

vars == <<args_jobs, args_dbname, pc, dbs, db_i, tables, t_i, tables_added, retcode, w_i,
          workers, queue, err_count, wpc, witem, wtmp, popped, dumps, results>>

mainLocals == <<dbs, db_i, tables, t_i, tables_added, retcode, w_i>>
workerVars == <<wpc, witem, wtmp, popped, dumps, results>>
argVars == <<args_jobs, args_dbname>>

NoItem == <<0, 0>>

\* ---------------------------------------------------------------- helpers

\* range(n) of Python, shifted to 1-based ids: empty when n <= 0.
Range(n) == 1..n

\* Lines 91-99: the rows of the catalog query of a database with n tables, in
\* the order the query returns them ("order by relpages desc"): a table is named
\* by its place in that order.
TablesOf(n) == [x \in 1..n |-> x]

\* Line 48: what shell_exec_with_output can return for a pg_dump: its exit code
\* and whether its output contains "No matching tables were found" (an error
\* message; pg_dump does not print it and exit 0).
DumpResults == {<<0, FALSE>>, <<1, FALSE>>, <<1, TRUE>>}

\* Classify without the test of line 50: every non-zero exit code is a failure.
ClassifyNoBenign(rc, nomatch) ==
    IF rc # 0 THEN "Failure" ELSE "Success"

\* Lines 49-56: the outcome of one pg_dump from its exit code and its output.
Classify(rc, nomatch) ==
    IF rc # 0
    THEN IF nomatch THEN "BenignNotFound" ELSE "Failure"
    ELSE "Success"

\* IsAlive for a test that holds of every started thread (such as t.daemon).
IsAliveAlways(w) == wpc[w] # "NotStarted"

\* Thread.is_alive(): false once worker_process has returned.
IsAlive(w) == wpc[w] # "Terminated"

\* queue.empty()
QueueEmpty(q) == Len(q) = 0

\* Verdict with the test of line 176 inverted.
VerdictInverted(e) == IF e # 0 THEN "success" ELSE "failure"

\* Lines 176-180: the verdict from err_count.
Verdict(e) == IF e = 0 THEN "success" ELSE "failure"

\* The process ends with the main thread: when main returns (exit status 0), at
\* exit(1) and at an uncaught exception (exit status 1).  The worker threads are
\* daemon threads and end with it.
Terminal == {"success", "failure", "abort_dead", "fatal"}

Running == pc \notin Terminal

ExitCode == IF pc = "success" THEN 0 ELSE IF pc \in Terminal THEN 1 ELSE -1

\* ------------------------------------------------------------------- Init
Init ==
    /\ args_jobs \in -1..MaxJobs
    /\ args_dbname \in 0..MaxDbs
    /\ pc = "start"
    /\ dbs = <<>>
    /\ db_i = 1
    /\ tables = <<>>
    /\ t_i = 1
    /\ tables_added = 0
    /\ retcode = 0
    /\ w_i = 1
    /\ workers = <<>>
    /\ queue = <<>>
    /\ err_count = 0
    /\ wpc = [w \in WorkerIds |-> "NotStarted"]
    /\ witem = [w \in WorkerIds |-> NoItem]
    /\ wtmp = [w \in WorkerIds |-> 0]
    /\ popped = <<>>
    /\ dumps = [it \in Items |-> 0]
    /\ results = [r \in DumpResults |-> 0]

\* ------------------------------------------------------ the main thread

\* Lines 138-148: the BINDIR check, the list of databases (ordered by datname)
\* and the restriction to args.dbname.
ListDatabases ==
    /\ Running /\ pc = "start"
    /\ \E bindir_ok \in BOOLEAN, n \in 0..MaxDbs :
          LET found == [x \in 1..n |-> x]
          IN IF ~bindir_ok
             THEN pc' = "fatal" /\ dbs' = dbs
             ELSE IF args_dbname # 0
                  THEN IF \A x \in 1..n : found[x] # args_dbname
                       THEN pc' = "fatal" /\ dbs' = found
                       ELSE pc' = "globals" /\ dbs' = <<args_dbname>>
                  ELSE pc' = "globals" /\ dbs' = found
    /\ UNCHANGED <<argVars, db_i, tables, t_i, tables_added, retcode, w_i,
                   workers, queue, err_count, workerVars>>

\* AfterVerify without the raise: the exit code is ignored.
AfterVerifyIgnore(rc, next) == next

\* Lines 74-76 and 84-86: a non-zero exit code raises, which ends the process.
AfterVerify(rc, next) == IF rc # 0 THEN "fatal" ELSE next

\* VerifyGlobals without the launch_workers() of line 153 after it.
VerifyGlobalsSkipLaunch ==
    /\ Running /\ pc = "globals"
    /\ IF args_dbname = 0
       THEN \E rc \in {0, 1} :
               /\ retcode' = rc
               /\ pc' = AfterVerify(rc, "for_db")
       ELSE pc' = "for_db" /\ retcode' = retcode
    /\ UNCHANGED <<argVars, dbs, db_i, tables, t_i, tables_added, w_i, workers, queue,
                   err_count, workerVars>>

\* Lines 150-151 and 69-76: verify_globals unless a single database is asked for.
VerifyGlobals ==
    /\ Running /\ pc = "globals"
    /\ IF args_dbname = 0
       THEN \E rc \in {0, 1} :
               /\ retcode' = rc
               /\ pc' = AfterVerify(rc, "launch")
       ELSE pc' = "launch" /\ retcode' = retcode
    /\ UNCHANGED <<argVars, dbs, db_i, tables, t_i, tables_added, w_i, workers, queue,
                   err_count, workerVars>>

\* Lines 62-66: one iteration of launch_workers: the thread is started
\* (and is then waiting in queue.get()) and appended to workers.
LaunchWorker ==
    /\ Running /\ pc = "launch"
    /\ Len(workers) + 1 \in Range(args_jobs)
    /\ LET id == Len(workers) + 1
       IN /\ wpc' = [wpc EXCEPT ![id] = "get"]
          /\ workers' = Append(workers, id)
    /\ UNCHANGED <<argVars, pc, mainLocals, queue, err_count,
                   witem, wtmp, popped, dumps, results>>

\* Line 62 (the loop ends) and line 155.
LaunchDone ==
    /\ Running /\ pc = "launch"
    /\ Len(workers) + 1 \notin Range(args_jobs)
    /\ pc' = "for_db"
    /\ db_i' = 1
    /\ tables_added' = 0
    /\ UNCHANGED <<argVars, dbs, tables, t_i, retcode, w_i, workers, queue,
                   err_count, workerVars>>

\* Lines 157-158 and 79-86: verify_schema(db) of the next database.
VerifySchema ==
    /\ Running /\ pc = "for_db"
    /\ db_i <= Len(dbs)
    /\ \E rc \in {0, 1} :
          /\ retcode' = rc
          /\ pc' = AfterVerify(rc, "discover")
    /\ UNCHANGED <<argVars, dbs, db_i, tables, t_i, tables_added, w_i, workers, queue,
                   err_count, workerVars>>

\* Lines 90-100 and 104-106, 160: the catalog query of add_tables_from_db; with
\* no table found the function returns 0 at once.
ListTables ==
    /\ Running /\ pc = "discover"
    /\ \E n \in 0..MaxTables :
          /\ tables_added + n <= MaxQueued
          /\ tables' = TablesOf(n)
          /\ t_i' = 1
          /\ IF Len(tables') = 0
             THEN pc' = "for_db" /\ db_i' = db_i + 1
             ELSE pc' = "put" /\ db_i' = db_i
    /\ UNCHANGED <<argVars, dbs, tables_added, retcode, w_i, workers, queue,
                   err_count, workerVars>>

\* Lines 101-103, 106 and 160: one queue.put((dbname, t)); after the last one
\* add_tables_from_db returns len(tables), which main adds to tables_added.
PutTable ==
    /\ Running /\ pc = "put"
    /\ queue' = Append(queue, <<dbs[db_i], tables[t_i]>>)
    /\ IF t_i < Len(tables)
       THEN /\ t_i' = t_i + 1
            /\ UNCHANGED <<pc, db_i, tables, tables_added>>
       ELSE /\ t_i' = 1
            /\ tables' = <<>>
            /\ tables_added' = tables_added + Len(tables)
            /\ db_i' = db_i + 1
            /\ pc' = "for_db"
    /\ UNCHANGED <<argVars, dbs, retcode, w_i, workers, err_count, workerVars>>

\* CheckTablesAdded without lines 162-163: no raise when no table was added.
CheckTablesAddedNoRaise ==
    /\ Running /\ pc = "for_db"
    /\ db_i > Len(dbs)
    /\ pc' = "drain"
    /\ UNCHANGED <<argVars, dbs, db_i, tables, t_i, tables_added, retcode, w_i,
                   workers, queue, err_count, workerVars>>

\* Lines 157 (the loop ends) and 162-166.
CheckTablesAdded ==
    /\ Running /\ pc = "for_db"
    /\ db_i > Len(dbs)
    /\ IF tables_added = 0
       THEN pc' = "fatal"
       ELSE pc' = "drain"
    /\ UNCHANGED <<argVars, dbs, db_i, tables, t_i, tables_added, retcode, w_i,
                   workers, queue, err_count, workerVars>>

\* Line 167: the test of the drain loop.
PollQueue ==
    /\ Running /\ pc = "drain"
    /\ IF QueueEmpty(queue)
       THEN pc' = "verdict" /\ w_i' = w_i
       ELSE pc' = "alive" /\ w_i' = 1
    /\ UNCHANGED <<argVars, dbs, db_i, tables, t_i, tables_added, retcode,
                   workers, queue, err_count, workerVars>>

\* CheckWorkerAlive with "return True" inside the loop of all_workers_alive: only
\* the first worker is looked at.
CheckWorkerAliveFirstOnly ==
    /\ Running /\ pc = "alive"
    /\ IF w_i <= Len(workers) /\ ~IsAlive(workers[w_i])
       THEN pc' = "abort_dead" /\ w_i' = 1
       ELSE pc' = "sleep" /\ w_i' = 1
    /\ UNCHANGED <<argVars, dbs, db_i, tables, t_i, tables_added, retcode,
                   workers, queue, err_count, workerVars>>

\* CheckWorkerAlive without the exit(1) of line 170: a dead worker is logged and
\* main goes on to sleep.
CheckWorkerAliveNoExit ==
    /\ Running /\ pc = "alive"
    /\ IF w_i <= Len(workers) /\ IsAlive(workers[w_i])
       THEN pc' = pc /\ w_i' = w_i + 1
       ELSE pc' = "sleep" /\ w_i' = 1
    /\ UNCHANGED <<argVars, dbs, db_i, tables, t_i, tables_added, retcode,
                   workers, queue, err_count, workerVars>>

\* CheckWorkerAlive with an all_workers_alive that returns False for an empty
\* list of workers.
CheckWorkerAliveEmptyFalse ==
    /\ Running /\ pc = "alive"
    /\ IF w_i <= Len(workers)
       THEN IF ~IsAlive(workers[w_i])
            THEN pc' = "abort_dead" /\ w_i' = 1
            ELSE pc' = pc /\ w_i' = w_i + 1
       ELSE IF Len(workers) = 0
            THEN pc' = "abort_dead" /\ w_i' = 1
            ELSE pc' = "sleep" /\ w_i' = 1
    /\ UNCHANGED <<argVars, dbs, db_i, tables, t_i, tables_added, retcode,
                   workers, queue, err_count, workerVars>>

\* Lines 168-170 and 109-113: one iteration of all_workers_alive; a dead worker
\* makes it return False and main exit(1); after the last worker it returns True.
CheckWorkerAlive ==
    /\ Running /\ pc = "alive"
    /\ IF w_i <= Len(workers)
       THEN IF ~IsAlive(workers[w_i])
            THEN pc' = "abort_dead" /\ w_i' = 1
            ELSE pc' = pc /\ w_i' = w_i + 1
       ELSE pc' = "sleep" /\ w_i' = 1
    /\ UNCHANGED <<argVars, dbs, db_i, tables, t_i, tables_added, retcode,
                   workers, queue, err_count, workerVars>>

\* Lines 171-174: time.sleep(5); i and the progress line feed the log only.
Sleep ==
    /\ Running /\ pc = "sleep"
    /\ pc' = "drain"
    /\ UNCHANGED <<argVars, dbs, db_i, tables, t_i, tables_added, retcode, w_i,
                   workers, queue, err_count, workerVars>>

\* Lines 176-180: err_count is read and the verdict is logged.
ReadErrCount ==
    /\ Running /\ pc = "verdict"
    /\ pc' = Verdict(err_count)
    /\ UNCHANGED <<argVars, mainLocals, workers, queue, err_count, workerVars>>

MainStep ==
    \/ ListDatabases
    \/ VerifyGlobals
    \/ LaunchWorker
    \/ LaunchDone
    \/ VerifySchema
    \/ ListTables
    \/ PutTable
    \/ CheckTablesAdded
    \/ PollQueue
    \/ CheckWorkerAlive
    \/ Sleep
    \/ ReadErrCount

\* --------------------------------------------------- the worker threads

\* Get that reads the head of the queue and leaves it there.
GetPeek(w) ==
    /\ Running /\ wpc[w] = "get"
    /\ ~QueueEmpty(queue)
    /\ witem' = [witem EXCEPT ![w] = Head(queue)]
    /\ popped' = Append(popped, Head(queue))
    /\ wpc' = [wpc EXCEPT ![w] = "dump"]
    /\ UNCHANGED <<argVars, pc, mainLocals, workers, queue, err_count, wtmp, dumps, results>>

\* Get in a loop that a return does not end: a terminated worker pops as well.
GetAfterReturn(w) ==
    /\ Running /\ wpc[w] \in {"get", "Terminated"}
    /\ ~QueueEmpty(queue)
    /\ witem' = [witem EXCEPT ![w] = Head(queue)]
    /\ queue' = Tail(queue)
    /\ popped' = Append(popped, Head(queue))
    /\ wpc' = [wpc EXCEPT ![w] = "dump"]
    /\ UNCHANGED <<argVars, pc, mainLocals, workers, err_count, wtmp, dumps, results>>

\* Get on a LIFO queue: the item put last is returned.
GetLast(w) ==
    /\ Running /\ wpc[w] = "get"
    /\ ~QueueEmpty(queue)
    /\ witem' = [witem EXCEPT ![w] = queue[Len(queue)]]
    /\ queue' = SubSeq(queue, 1, Len(queue) - 1)
    /\ popped' = Append(popped, queue[Len(queue)])
    /\ wpc' = [wpc EXCEPT ![w] = "dump"]
    /\ UNCHANGED <<argVars, pc, mainLocals, workers, err_count, wtmp, dumps, results>>

\* Line 44: queue.get() returns the head of the queue; it blocks while the
\* queue is empty.
Get(w) ==
    /\ Running /\ wpc[w] = "get"
    /\ ~QueueEmpty(queue)
    /\ witem' = [witem EXCEPT ![w] = Head(queue)]
    /\ queue' = Tail(queue)
    /\ popped' = Append(popped, Head(queue))
    /\ wpc' = [wpc EXCEPT ![w] = "dump"]
    /\ UNCHANGED <<argVars, pc, mainLocals, workers, err_count, wtmp, dumps, results>>

\* Dump that puts the item back on the queue when its pg_dump failed.
DumpRequeue(w) ==
    /\ Running /\ wpc[w] = "dump"
    /\ \E r \in DumpResults :
          LET o == Classify(r[1], r[2])
          IN /\ results' = [results EXCEPT ![r] = @ + 1]
             /\ dumps' = [dumps EXCEPT ![witem[w]] = @ + 1]
             /\ wpc' = [wpc EXCEPT ![w] = IF o = "Failure" THEN "load" ELSE "get"]
             /\ queue' = IF o = "Failure" THEN Append(queue, witem[w]) ELSE queue
    /\ witem' = [witem EXCEPT ![w] = NoItem]
    /\ UNCHANGED <<argVars, pc, mainLocals, workers, err_count, wtmp, popped>>

\* Lines 45-53: pg_dump of the table runs to its end and its result is
\* classified: back to queue.get() unless it is a failure.
Dump(w) ==
    /\ Running /\ wpc[w] = "dump"
    /\ \E r \in DumpResults :
          LET o == Classify(r[1], r[2])
          IN /\ results' = [results EXCEPT ![r] = @ + 1]
             /\ dumps' = [dumps EXCEPT ![witem[w]] = @ + 1]
             /\ wpc' = [wpc EXCEPT ![w] = IF o = "Failure" THEN "load" ELSE "get"]
    /\ witem' = [witem EXCEPT ![w] = NoItem]
    /\ UNCHANGED <<argVars, pc, mainLocals, workers, queue, err_count, wtmp, popped>>

\* Line 55, first half: err_count += 1 loads the global.
LoadErrCount(w) ==
    /\ Running /\ wpc[w] = "load"
    /\ wtmp' = [wtmp EXCEPT ![w] = err_count]
    /\ wpc' = [wpc EXCEPT ![w] = "store"]
    /\ UNCHANGED <<argVars, pc, mainLocals, workers, queue, err_count,
                   witem, popped, dumps, results>>

\* StoreErrCount with the return of line 56 ahead of line 55: the worker
\* terminates and err_count is left as it is.
StoreErrCountReturnFirst(w) ==
    /\ Running /\ wpc[w] = "store"
    /\ err_count' = err_count
    /\ wtmp' = [wtmp EXCEPT ![w] = 0]
    /\ wpc' = [wpc EXCEPT ![w] = "Terminated"]
    /\ UNCHANGED <<argVars, pc, mainLocals, workers, queue, witem, popped, dumps, results>>

\* Lines 55-56: err_count += 1 stores the sum; worker_process returns and the
\* thread is no longer alive.
StoreErrCount(w) ==
    /\ Running /\ wpc[w] = "store"
    /\ err_count' = wtmp[w] + 1
    /\ wtmp' = [wtmp EXCEPT ![w] = 0]
    /\ wpc' = [wpc EXCEPT ![w] = "Terminated"]
    /\ UNCHANGED <<argVars, pc, mainLocals, workers, queue, witem, popped, dumps, results>>

WorkerStep(w) ==
    \/ Get(w)
    \/ Dump(w)
    \/ LoadErrCount(w)
    \/ StoreErrCount(w)

\* ---------------------------------------------------------- specification
Next ==
    \/ MainStep
    \/ \E w \in WorkerIds : WorkerStep(w)

Spec == Init /\ [][Next]_vars

\* Every external operation ends and the threads are scheduled: the main thread
\* keeps running, and so does some worker thread that can take a step.
FairSpec ==
    /\ Spec
    /\ WF_vars(MainStep)
    /\ WF_vars(\E w \in WorkerIds : WorkerStep(w))

\* --------------------------------------------------- vocabulary of the claims

InQueue(it) == \E k \in 1..Len(queue) : queue[k] = it

PopCount(it) == Cardinality({k \in 1..Len(popped) : popped[k] = it})

\* The items add_tables_from_db has pushed: each is in the queue or was popped.
Pushed(it) == InQueue(it) \/ PopCount(it) > 0

\* The item is inside a worker: popped, and its pg_dump has not ended.
InFlight(it) == \E w \in WorkerIds : wpc[w] = "dump" /\ witem[w] = it

\* The outcome of a unit execution, from the exit status and the output.
IsSuccess(r) == r[1] = 0
IsBenignNotFound(r) == r[1] # 0 /\ r[2]
IsFailure(r) == r[1] # 0 /\ ~r[2]

SomeResult(P(_)) == \E r \in DumpResults : results[r] > 0 /\ P(r)
EveryResult(P(_)) == \A r \in DumpResults : results[r] > 0 => P(r)

\* The worker has left its loop for good, or is on its way out of it.
Retiring(w) == wpc[w] \in {"load", "store", "Terminated"}

\* ------------------------------------------------------------------ claims

\* C1: whenever the coordinator reports the success verdict, every pushed item
\* has been dequeued and its dump has run to completion with a non-Failure
\* outcome: none is still queued and none is still in flight inside a worker.
C1_SuccessMeansAllDumped ==
    pc = "success" =>
        /\ \A it \in Items :
               Pushed(it) => (~InQueue(it) /\ ~InFlight(it) /\ dumps[it] >= 1)
        /\ ~SomeResult(IsFailure)

\* C2: a run in which a unit execution had outcome Failure never ends with the
\* success verdict (exit status 0).
C2_FailureNeverSuccess ==
    SomeResult(IsFailure) => pc # "success" /\ ExitCode # 0

SomePushed == \E it \in Items : Pushed(it)

\* C3: when setup succeeds, a table is discovered and a worker is launched, and
\* every unit execution has outcome Success, err_count is 0, no worker
\* terminates, and the run can only end with the success verdict (exit 0).
C3_AllSuccessMeansSuccess ==
    EveryResult(IsSuccess) =>
        /\ err_count = 0
        /\ \A w \in WorkerIds : ~Retiring(w)
        /\ pc \notin {"failure", "abort_dead"}
        /\ ((pc \in Terminal /\ retcode = 0 /\ SomePushed) => (pc = "success" /\ ExitCode = 0))

\* Two workers drained three tables, all dumped with success, and main reported it.
C3_Witness ==
    /\ pc = "success"
    /\ Len(workers) = 2
    /\ Len(popped) = 3
    /\ \A k \in 1..3 : dumps[popped[k]] = 1
    /\ results[<<0, FALSE>>] = 3

\* The step in which the pg_dump run by worker w ends with result r.
DumpEnds(w, r) ==
    /\ wpc[w] = "dump" /\ wpc'[w] # "dump"
    /\ results'[r] = results[r] + 1

\* A dump that ends with BenignNotFound leaves err_count and the queue as they
\* are and sends the worker back to queue.get().
C4_BenignStep ==
    \A w \in WorkerIds : \A r \in DumpResults :
        (IsBenignNotFound(r) /\ DumpEnds(w, r)) =>
            /\ err_count' = err_count
            /\ wpc'[w] = "get"
            /\ queue' = queue

\* With BenignNotFound the only outcome other than Success so far, err_count is
\* 0, no worker is retiring and main has not reached failure or the abort.
C4_OnlyBenign ==
    (SomeResult(IsBenignNotFound) /\ ~SomeResult(IsFailure)) =>
        /\ err_count = 0
        /\ \A w \in WorkerIds : ~Retiring(w)
        /\ pc \notin {"failure", "abort_dead"}

Aborted == pc \in {"fatal", "abort_dead"}

\* An item leaves the queue only in a queue.get(), which hands it to a worker,
\* and it is then popped for the first time.
C5_LeavesByPop ==
    \A it \in Items :
        (InQueue(it) /\ ~InQueue(it)') =>
            /\ PopCount(it) = 0
            /\ PopCount(it)' = 1
            /\ InFlight(it)'

\* C5 (under FairSpec): with at least one worker, every item in the queue is
\* eventually popped, exactly once, unless the run ends by a fatal abort: a
\* non-empty queue is eventually empty (so each item in it has left it), and
\* an item leaves it only by its first pop.
C5_EveryPushedItemIsPopped ==
    /\ [][C5_LeavesByPop]_vars
    /\ (args_jobs >= 1 /\ ~(queue = <<>>)) ~> (queue = <<>> \/ Aborted)

\* Three tables of two databases were all popped and the run reached a verdict.
C5_Witness ==
    /\ pc \in {"success", "failure"}
    /\ args_jobs >= 1
    /\ Len(popped) = 3
    /\ Len(dbs) = 2
    /\ \A it \in Items : Pushed(it) => PopCount(it) = 1

Holders(it) == {w \in WorkerIds : wpc[w] = "dump" /\ witem[w] = it}

\* The pg_dump invocations on an item: those that ended and the one running.
Dumps(it) == dumps[it] + Cardinality(Holders(it))

\* C6: no item is handed to more than one worker or executed more than once:
\* per item at most one pop and one dump invocation (none for an item never
\* pushed), and a popped item is never in the queue again.
C6_NoDuplicateExecution ==
    \A it \in Items :
        /\ PopCount(it) <= 1
        /\ Cardinality(Holders(it)) <= 1
        /\ Dumps(it) <= PopCount(it)
        /\ ~(InQueue(it) /\ PopCount(it) > 0)
        /\ Cardinality({k \in 1..Len(queue) : queue[k] = it}) <= 1

\* Both workers are dumping at the same time, each its own table.
C6_Witness ==
    /\ wpc[1] = "dump" /\ wpc[2] = "dump"
    /\ witem[1] # witem[2]
    /\ Len(popped) = 2

SomeDead == \E k \in 1..Len(workers) : wpc[workers[k]] = "Terminated"

\* all_workers_alive is running and a worker it has not yet looked at is dead.
DeadAhead ==
    /\ pc = "alive"
    /\ \E k \in w_i..Len(workers) : wpc[workers[k]] = "Terminated"

\* A poll that finds the queue non-empty with a dead worker enters
\* all_workers_alive with that worker ahead; from there main stays on the way
\* to exit(1), which is final.
C7_PollStep ==
    /\ ((pc = "drain" /\ ~(queue = <<>>) /\ SomeDead /\ pc' # pc) => DeadAhead')
    /\ (DeadAhead => (DeadAhead' \/ (pc' = "abort_dead" /\ ExitCode' = 1)))
    /\ (pc = "abort_dead" => pc' = "abort_dead")

\* C7: a poll that finds the queue non-empty while a worker has terminated ends
\* in the abort (exit 1): main goes through all_workers_alive to exit(1) without
\* sleeping again and without reaching a verdict.
C7_DeadWorkerAbortsAtPoll == [][C7_PollStep]_vars

\* The abort happened with a table still queued and another worker still dumping.
C7_Witness ==
    /\ pc = "abort_dead"
    /\ Len(queue) >= 1
    /\ \E w \in WorkerIds : wpc[w] = "Terminated"
    /\ \E w \in WorkerIds : wpc[w] = "dump"

DrainOrLater == {"drain", "alive", "sleep", "verdict", "success", "failure", "abort_dead"}

\* After the loop over the databases with nothing pushed, main's next step is
\* the raise.
C8_AfterDiscoveryStep ==
    (pc = "for_db" /\ db_i > Len(dbs) /\ ~SomePushed /\ pc' # pc) =>
        (pc' = "fatal" /\ ExitCode' = 1)

\* C8: when discovery has pushed no table (also with no database at all), main
\* aborts right after the loop over the databases with exit status 1; the drain
\* loop and the verdict are reached only with at least one table pushed.
C8_NoTablesIsFatal ==
    [][C8_AfterDiscoveryStep]_vars /\ [](pc \in DrainOrLater => SomePushed)

\* Two databases passed verify_schema, neither had a table, and main aborted.
C8_Witness ==
    /\ pc = "fatal"
    /\ Len(dbs) = 2
    /\ db_i = 3
    /\ retcode = 0
    /\ Len(workers) >= 1
    /\ ~SomePushed

\* The place of a database in dbs (0 when it is not there).
DbIndex(db) == IF \E k \in 1..Len(dbs) : dbs[k] = db
               THEN CHOOSE k \in 1..Len(dbs) : dbs[k] = db
               ELSE 0

\* A non-zero retcode of verify_globals or verify_schema ends the run in the
\* same step: for globals with no worker started and nothing pushed, for a schema
\* with nothing pushed of that database or of a later one; nothing changes after.
C9_VerifyStep ==
    /\ (pc = "globals" /\ pc' # pc /\ retcode' # 0) =>
           /\ pc' = "fatal"
           /\ workers' = <<>>
           /\ \A w \in WorkerIds : wpc'[w] = "NotStarted"
           /\ ~SomePushed'
    /\ (pc = "for_db" /\ pc' # pc /\ retcode' # 0) =>
           /\ pc' = "fatal"
           /\ \A it \in Items : Pushed(it)' => DbIndex(it[1])' < db_i'
    /\ (pc = "fatal" => (pc' = "fatal" /\ queue' = queue /\ popped' = popped /\ dumps' = dumps))

\* Every pushed item belongs to a database main is past, or to the one whose
\* tables it is putting; only pushed items are dumped.
C9_PushedOnlyAfterSchema ==
    /\ \A it \in Items :
          /\ Pushed(it) =>
                 /\ DbIndex(it[1]) >= 1
                 /\ DbIndex(it[1]) < db_i \/ (DbIndex(it[1]) = db_i /\ pc = "put")
          /\ (Dumps(it) > 0) => Pushed(it)
    /\ (pc = "fatal" => ExitCode = 1)

\* C9: a non-zero exit status of verify_globals or verify_schema aborts the run
\* (exit 1, no verdict); tables are pushed only for databases whose verify_schema
\* succeeded, so none of the failing database or of a later one is ever pushed or
\* dumped; a globals failure happens before any worker is launched.
C9_VerifyFailureIsFatal == [][C9_VerifyStep]_vars /\ []C9_PushedOnlyAfterSchema

\* verify_schema of the second database failed after tables of the first one
\* had been pushed: the run is aborted.
C9_Witness ==
    /\ pc = "fatal"
    /\ retcode # 0
    /\ Len(dbs) = 2
    /\ db_i = 2
    /\ SomePushed

\* C10 (under FairSpec): with at least one worker, main always leaves the drain
\* loop: it ends with the success verdict, the failure verdict or the abort on a
\* dead worker.
C10_DrainLoopTerminates ==
    (args_jobs >= 1 /\ pc \in {"drain", "alive", "sleep", "verdict"})
        ~> (pc \in {"success", "failure", "abort_dead"})

\* Three tables were popped, a worker terminated on a failure, and main left
\* the drain loop with the failure verdict.
C10_Witness ==
    /\ pc = "failure"
    /\ args_jobs >= 1
    /\ Len(popped) = 3
    /\ \E w \in WorkerIds : wpc[w] = "Terminated"

\* The workers that have terminated; a worker terminates only on a Failure.
TerminatedWorkers == {w \in WorkerIds : wpc[w] = "Terminated"}

\* Some worker is between the load and the store of err_count += 1, or about
\* to load.
IncrementInProgress == \E w \in WorkerIds : wpc[w] \in {"load", "store"}

\* C11: once all increments in progress have finished, err_count equals the
\* number of workers that terminated because of a Failure outcome: no increment
\* is lost when two workers execute err_count += 1 at the same time.
C11_NoLostIncrement ==
    ~IncrementInProgress => err_count = Cardinality(TerminatedWorkers)

\* C12, first half: a Terminated worker implies err_count >= 1, and err_count
\* is never negative.
C12_TerminatedCounted ==
    /\ err_count >= 0
    /\ (TerminatedWorkers # {}) => err_count >= 1

\* C12, second half: the verdict read with a worker terminated is the failure
\* verdict, whether or not the liveness of the workers was polled.
C12_VerdictStep ==
    (pc = "verdict" /\ TerminatedWorkers # {} /\ pc' # pc) =>
        (pc' = "failure" /\ ExitCode' = 1)

WorkerState(w) ==
    IF wpc[w] = "NotStarted" THEN "NotStarted"
    ELSE IF wpc[w] = "Terminated" THEN "Terminated" ELSE "Running"

RunningWorkers == {w \in WorkerIds : WorkerState(w) = "Running"}

\* launch_workers has returned.
Launched == pc \notin {"start", "globals", "launch"}

\* A Terminated worker stays Terminated and holds no item; a Running worker
\* stays Running or becomes Terminated; an item is popped only by a worker that
\* was waiting in queue.get(); after launch_workers no thread is started and
\* the number of Running workers does not grow.
C13_WorkerStep ==
    /\ \A w \in WorkerIds :
          /\ (WorkerState(w) = "Terminated") =>
                 (WorkerState(w)' = "Terminated" /\ witem'[w] = NoItem)
          /\ (WorkerState(w) = "Running") => (WorkerState(w)' # "NotStarted")
          /\ (witem'[w] # witem[w] /\ witem'[w] # NoItem) => wpc[w] = "get"
    /\ (popped' # popped) =>
          \E w \in WorkerIds : wpc[w] = "get" /\ wpc'[w] = "dump" /\ witem'[w] = Head(queue)
    /\ Launched =>
          /\ workers' = workers
          /\ \A w \in WorkerIds :
                 (WorkerState(w) = "NotStarted") => (WorkerState(w)' = "NotStarted")
          /\ Cardinality(RunningWorkers') <= Cardinality(RunningWorkers)

\* C13: worker state only moves Running -> Terminated: a Terminated worker
\* never pops another item and never becomes Running again, no worker is created
\* after launch_workers, and so from then on the number of Running workers never
\* increases.
C13_WorkersOnlyRetire == [][C13_WorkerStep]_vars

\* One of two workers has terminated and stays so; the other one is still
\* Running and is dumping the last of three tables.
C13_Witness ==
    /\ Cardinality(TerminatedWorkers) = 1
    /\ Cardinality(RunningWorkers) = 1
    /\ Len(popped) = 3
    /\ queue = <<>>
    /\ \E w \in WorkerIds : wpc[w] = "dump" /\ witem[w] = popped[3]

\* The steps of a Failure outcome in worker w: its pg_dump ends with a failure,
\* err_count += 1 loads, then stores and the thread returns.
FailureStep(w) ==
    \/ \E r \in DumpResults : IsFailure(r) /\ DumpEnds(w, r)
    \/ wpc[w] = "load" /\ wpc'[w] # wpc[w]
    \/ wpc[w] = "store" /\ wpc'[w] # wpc[w]

\* A step of a Failure outcome in w leaves the queue, the pops, the main thread
\* and every other worker as they are; err_count changes in the store only; w
\* goes on towards Terminated holding no item.
C14_FailureFrame ==
    \A w \in WorkerIds :
        FailureStep(w) =>
            /\ queue' = queue
            /\ popped' = popped
            /\ pc' = pc
            /\ workers' = workers
            /\ \A v \in WorkerIds \ {w} :
                   wpc'[v] = wpc[v] /\ witem'[v] = witem[v] /\ wtmp'[v] = wtmp[v]
            /\ (wpc[w] # "store") => (err_count' = err_count)
            /\ (wpc[w] = "store") => (err_count' = wtmp[w] + 1 /\ wpc'[w] = "Terminated")
            /\ Retiring(w)'
            /\ witem'[w] = NoItem

\* An item whose pg_dump has ended is not in the queue and no worker holds it;
\* a retiring worker holds no item; a worker waiting in queue.get() with the
\* queue non-empty can pop, whatever happened to the other workers.
C14_NoRetry ==
    /\ \A it \in Items :
          (dumps[it] >= 1) => (~InQueue(it) /\ Holders(it) = {} /\ dumps[it] = 1)
    /\ \A w \in WorkerIds :
          /\ Retiring(w) => witem[w] = NoItem
          /\ (Running /\ wpc[w] = "get" /\ ~(queue = <<>>)) => ENABLED Get(w)

\* C14: a Failure outcome in worker w changes only w's own state (to Terminated)
\* and err_count: the queue, the other workers and the items they hold are
\* unchanged, the failed item is neither re-enqueued nor retried, and the other
\* Running workers keep popping the remaining items.
C14_FailureRetiresOnlyOwner == [][C14_FailureFrame]_vars /\ []C14_NoRetry

\* Worker 1 terminated on a failure of the first table while worker 2 is
\* dumping the second one and a third one is still queued.
C14_Witness ==
    /\ wpc[1] = "Terminated"
    /\ err_count = 1
    /\ results[<<1, FALSE>>] = 1
    /\ wpc[2] = "dump" /\ witem[2] = popped[2]
    /\ Len(popped) = 2
    /\ Len(queue) = 1

\* The number of threads launch_workers starts: len(range(args.jobs)).
PoolSize == IF args_jobs > 0 THEN args_jobs ELSE 0

\* Before launch_workers no thread is started; until it has returned nothing is
\* pushed; once something is pushed the whole pool has been started.
C15_Order ==
    /\ (pc \in {"start", "globals"}) =>
           (workers = <<>> /\ \A w \in WorkerIds : WorkerState(w) = "NotStarted")
    /\ (~Launched) => (~SomePushed /\ tables_added = 0)
    /\ SomePushed =>
           /\ Len(workers) = PoolSize
           /\ \A w \in WorkerIds : (w <= PoolSize) <=> (WorkerState(w) # "NotStarted")

\* launch_workers is entered from the globals step only, after a verify_globals
\* with retcode 0 when it applies; the tables of a database are listed only
\* after its verify_schema returned 0; a put happens only inside
\* add_tables_from_db of the current database, whose verify_schema returned 0.
C15_OrderStep ==
    /\ (pc' = "launch" /\ pc # "launch") =>
           (pc = "globals" /\ (args_dbname = 0 => retcode' = 0))
    /\ (pc' = "discover" /\ pc # "discover") =>
           (pc = "for_db" /\ retcode' = 0 /\ db_i' = db_i /\ db_i <= Len(dbs))
    /\ (pc' = "put" /\ pc # "put") => (pc = "discover" /\ db_i' = db_i)
    /\ (queue' # queue /\ Len(queue') >= Len(queue)) =>
           /\ pc = "put" /\ retcode = 0
           /\ queue' = Append(queue, <<dbs[db_i], tables[t_i]>>)

\* C15: the coordinator's steps are ordered: verify_globals (when it applies)
\* completes before the worker pool is launched, the pool is launched before the
\* first item is pushed, and verify_schema(db) succeeds before any table of db
\* is pushed.  (That a worker can be dumping a table of an earlier database
\* while a later one is not yet discovered is the state of C15_Witness.)
C15_CoordinatorOrder == []C15_Order /\ [][C15_OrderStep]_vars

\* A worker is dumping a table of the first database while main has not yet
\* run verify_schema of the second one.
C15_Witness ==
    /\ pc = "for_db"
    /\ Len(dbs) = 2
    /\ db_i = 2
    /\ retcode = 0
    /\ \E w \in WorkerIds : wpc[w] = "dump" /\ witem[w][1] = dbs[1]

\* The order in which main pushes: the databases in the order of dbs, the
\* tables of a database in the order of the query (largest first).
PushedBefore(x, y) ==
    \/ DbIndex(x[1]) < DbIndex(y[1])
    \/ (x[1] = y[1] /\ x[2] < y[2])

\* Every item pushed so far, in push order as the queue keeps it.
History == popped \o queue

\* The pops so far followed by the queue are in push order: of two pushed
\* items the one pushed first is popped first (or is the only one popped, or
\* is ahead in the queue); so within a database a larger table is popped
\* before a smaller one.
C16_InPushOrder ==
    /\ \A j \in 1..Len(History) : \A k \in 1..Len(History) :
          (j < k) => PushedBefore(History[j], History[k])
    /\ \A j \in 1..Len(popped) : \A k \in 1..Len(popped) :
          (j < k /\ popped[j][1] = popped[k][1]) => popped[j][2] < popped[k][2]

\* A pop hands out the item at the head of the queue, and a put appends at its
\* end: the pushed items stay in the order of their pushes.
C16_PopStep ==
    /\ (popped' # popped) =>
           (popped' = Append(popped, Head(queue)) /\ queue' = Tail(queue))
    /\ (History' # History) => (\E it \in Items : History' = Append(History, it))

\* C16: items are dequeued in the order they were enqueued: if x was pushed
\* before y then x is popped before y; as the tables of a database are pushed in
\* descending size order, a larger table of a database is never started after a
\* smaller table of the same database.
C16_FifoOrder == []C16_InPushOrder /\ [][C16_PopStep]_vars

\* Two workers popped three tables of two databases between them, the two
\* tables of the first database before the table of the second.
C16_Witness ==
    /\ Len(popped) = 3
    /\ Len(workers) = 2
    /\ popped[1][1] = popped[2][1]
    /\ popped[3][1] # popped[1][1]
    /\ wpc[1] = "dump" /\ wpc[2] = "dump"

DrainLoop == {"drain", "alive", "sleep"}

\* With no worker: none is ever started, nothing is popped, the queue never
\* shrinks, all_workers_alive returns True, and main does not leave the drain
\* loop once it is in it.
C17_EmptyPoolStep ==
    (args_jobs <= 0) =>
        /\ workers' = <<>>
        /\ Len(queue') >= Len(queue)
        /\ (pc = "alive" /\ pc' # pc) => pc' = "sleep"
        /\ (pc \in DrainLoop) => (pc' \in DrainLoop)

\* C17: all_workers_alive() returns True for an empty pool, so with
\* args.jobs <= 0 and at least one table discovered the queue never shrinks and
\* main, once in the drain loop, never leaves it: it reaches neither a verdict
\* nor the abort.
C17_EmptyPoolHangs ==
    /\ [][C17_EmptyPoolStep]_vars
    /\ []((args_jobs <= 0) =>
             (PoolSize = 0 /\ popped = <<>>
              /\ pc \notin {"verdict", "success", "failure", "abort_dead"}))

\* No worker, three tables in the queue, and main asleep in the drain loop.
C17_Witness ==
    /\ args_jobs <= 0
    /\ pc = "sleep"
    /\ workers = <<>>
    /\ Len(queue) = 3
    /\ tables_added = 3

====
